---------------------------- MODULE Spec2Model ----------------------------
(***************************************************************************)
(* Job orchestration and resumable crawl engine of the AFTT scraper.       *)
(*                                                                         *)
(* Ranking-sync family (src/src/api/routers/interclubs.py and              *)
(* src/src/scraper/interclubs_scraper.py): the operator's start and cancel *)
(* requests run on the event loop, each job has a driver coroutine         *)
(* (run_interclubs_scrape) and a crawl that runs in a worker thread        *)
(* (scrape_all_interclubs_rankings through asyncio.to_thread).  A step of  *)
(* the model is one stretch of event-loop code between two awaits, or one  *)
(* loop iteration / one attempt of the crawl thread.                       *)
(*                                                                         *)
(* Roster family (src/src/api/routers/scraping.py, table scrape_tasks) and *)
(* tournament family (src/src/api/routers/tournaments.py): the job is a    *)
(* coroutine of the event loop; a step is one stretch of it between two    *)
(* awaits, split at a page fetch where the loop is held.  Log buffers and  *)
(* the relational store (src/src/database/queries.py) are modelled by what *)
(* their statements do.  Each family has its own specification over the    *)
(* shared variables.                                                       *)
(*                                                                         *)
(* Further specifications: the players and scrape_tasks tables called on   *)
(* their own (SpecPlayers, SpecTasks, SpecHistory), the ranking crawl over *)
(* every space a caller can ask for (SpecSpaces), the three families in    *)
(* one process with the answers of their handlers (SpecFamilies,           *)
(* SpecFamiliesLog), the ranking family as src/src/api/app.py serves it   *)
(* (SpecServed), the retried operations with their waits (SpecRetry), the  *)
(* roster family across a restart of the process (SpecRestart), the player *)
(* loop of one club (SpecPlayerLoop), and the log buffers of a family by   *)
(* task id (SpecTaskIds).                                                  *)
(***************************************************************************)
EXTENDS Integers, Sequences, FiniteSets, Bags, TLC

----------------------------------------------------------------------------
(* Bounds of the model *)

\* number of start requests that can be accepted (driver tasks created)
NumJobs == 2
\* size of the division catalog found on the start page
NumDivisions == 2

(* Program constants *)

MAX_RETRIES == 3

\* Python's None for a coordinate (last_success, resume_from)
None == <<>>
\* SQL NULL / Python None in an integer column
Null == -1

Jobs == 1..NumJobs

\* _extract_divisions: division_index is the position of the option
Catalog == [i \in 1..NumDivisions |-> i - 1]

\* week lists a start request can carry: weeks=1 and weeks=1-2
OneWeek == << 1 >>
TwoWeeks == << 1, 2 >>
\* weeks=2,1 and weeks=1,1: the list is built in the order of the parameter
WeeksReversed == << 2, 1 >>
WeeksRepeated == << 1, 1 >>
WeekLists == {OneWeek, TwoWeeks, WeeksReversed, WeeksRepeated}

\* division filters a start request can carry: none (all divisions),
\* divisions=1, and divisions=0,9 where the catalog has no division 9
AllDivisions == {}
DivisionFilters == {AllDivisions, {1}, {0, 9}}

\* "[d for d in divisions if d.division_index in division_indices]", applied
\* only when the filter is given
Selected(divisions, division_indices) ==
    IF division_indices = AllDivisions THEN divisions
    ELSE SelectSeq(divisions, LAMBDA d : d \in division_indices)

\* the for/for nest over divisions and weeks, flattened in visiting order
RECURSIVE SpaceFrom(_, _, _)
SpaceFrom(divisions, weeks, k) ==
    IF k > Len(divisions) * Len(weeks) THEN <<>>
    ELSE <<  << divisions[((k - 1) \div Len(weeks)) + 1],
                weeks[((k - 1) % Len(weeks)) + 1] >>  >>
         \o SpaceFrom(divisions, weeks, k + 1)

\* every coordinate a crawl of the model can visit
Items == {<< Catalog[i], TwoWeeks[k] >> : i \in 1..NumDivisions, k \in 1..Len(TwoWeeks)}

\* what one attempt of a work item can do: raise, or yield recs rows
\* fails = number of attempts that raise before one succeeds
FetchPlans ==
    { [fails |-> 0, recs |-> 2], [fails |-> 0, recs |-> 0],
      [fails |-> 2, recs |-> 1], [fails |-> 3, recs |-> 0] }

Undecided == [fails |-> 0 - 1, recs |-> 0]

\* table sizes a page of the unconstrained remote target can show
RecCounts == {0, 1}

----------------------------------------------------------------------------
VARIABLES
    cur,        \* _current_interclubs_scrape (the module global)
    pc,         \* per job: position of the driver coroutine
    args,       \* per job: weeks and resume_from arguments of the driver
    crawl,      \* per job: state of scrape_all_interclubs_rankings in its thread
    store,      \* table interclubs_rankings, a bag of rows
    plan,       \* fetch outcome fixed per work item (Undecided until first used)
    cancelled,  \* history: live jobs whose cancel request was accepted
    lastUpsert, \* the rows of the last upsert call made directly on the store
    tasks,      \* table scrape_tasks, rows in order of their id
    run,        \* per roster job: state of the coroutine run_full_scrape
    loop,       \* the roster coroutine that holds the event loop, 0 when free
    tcur,       \* _current_tournament_scrape (the module global)
    trun,       \* per tournament job: state of the coroutine run_tournament_scrape
    tstore,     \* tournament_series, _inscriptions and _results, a bag of rows
    logs,       \* per family: the log buffer of one task id
    appended,   \* history: per family, the messages appended to that buffer
    players,    \* table players, a set of rows with distinct licences
    lastPlayer, \* the dict of the last insert_player call
    now,        \* the clock of the store: CURRENT_TIMESTAMP, in seconds
    lastUpdate, \* history: the last update_scrape_task call made on the store alone
    history,    \* the last answer of get_scrape_task_history
    retried,    \* a retried operation on its own: position, attempts, waits
    ploop,      \* the player loop of one club of a roster job, on its own
    keyed,      \* the jobs of one family and its log buffers, by task id
    reply       \* the answer of the request handler that ran last

rankingVars == << cur, pc, args, crawl, store, plan, cancelled, lastUpsert >>
rosterVars == << tasks, run, loop >>
tournamentVars == << tcur, trun, tstore >>
logVars == << logs, appended >>
playerVars == << players, lastPlayer >>
taskVars == << now, lastUpdate, history >>
engineVars == << retried, ploop, keyed >>

\* everything but the answer of the last request
state == << rankingVars, rosterVars, tournamentVars, logVars, playerVars, taskVars, engineVars >>

vars == << state, reply >>

\* what a request handler of one family leaves alone
otherThanRanking == << rosterVars, tournamentVars, logVars, playerVars, taskVars, engineVars >>
otherThanRoster == << rankingVars, tournamentVars, logVars, playerVars, taskVars, engineVars >>
otherThanTournament == << rankingVars, rosterVars, logVars, playerVars, taskVars, engineVars >>

\* what a step of one family that answers no request leaves alone
notRanking == << otherThanRanking, reply >>
notRoster == << otherThanRoster, reply >>
notTournament == << otherThanTournament, reply >>
notLog == << rankingVars, rosterVars, tournamentVars, playerVars, taskVars, engineVars, reply >>
notPlayer == << rankingVars, rosterVars, tournamentVars, logVars, taskVars, engineVars, reply >>
notEngine == << rankingVars, rosterVars, tournamentVars, logVars, playerVars, taskVars, reply >>

\* _current_interclubs_scrape = None
NoScrape ==
    [ owner |-> 0, status |-> "none", finished_at |-> FALSE,
      total_rankings |-> 0, errors_count |-> 0, last_success |-> None ]

\* the dict built by the driver; owner is the identity of the job it is built for
NewScrape(j) ==
    [ owner |-> j, status |-> "running", finished_at |-> FALSE,
      total_rankings |-> 0, errors_count |-> 0, last_success |-> None ]

\* stats and loop variables of the crawl before the thread starts
NoCrawl ==
    [ cpc |-> "none", idx |-> 1, retries |-> 0, skipping |-> FALSE,
      total_divisions |-> 0,
      total_rankings |-> 0, errors |-> <<>>, last_success |-> None ]

\* arguments of a driver task that does not exist
NoArgs == [weeks |-> OneWeek, division_indices |-> AllDivisions, resume_from |-> None]

Terminal == {"success", "failed", "cancelled"}

\* --- initial values of the other families ---

\* the job families, each with its own log buffers
Families == {"roster", "tournament", "ranking"}

\* the coroutine of a task that does not exist
NoRun == [ rpc |-> "none", idx |-> 1, completed |-> 0, left |-> 0, errors |-> 0 ]

\* _current_tournament_scrape = None
NoTournamentScrape ==
    [ owner |-> 0, status |-> "none", finished_at |-> FALSE,
      total_tournaments |-> 0, completed_tournaments |-> 0,
      current_tournament |-> Null, errors |-> 0 ]

\* the coroutine of a tournament job that does not exist
NoTournamentRun == [ tpc |-> "idle", i |-> 1 ]

\* a key the dict does not have
Absent == 0 - 2

\* no insert_player call has been made yet
NoPlayer ==
    [ licence |-> 0, name |-> Absent, points_start |-> Absent,
      points_current |-> Absent, total_wins |-> Absent ]

\* no update_scrape_task call has been made yet
NoCall == [ turn |-> 0, task_id |-> 0, u |-> << >> ]

\* get_scrape_task_history has not been called yet
NoHistory == [ turn |-> 0, limit |-> 0, ids |-> << >> ]

\* no retried operation has begun
NoOp ==
    [ kind |-> "none", pc |-> "idle", item |-> 0, failed |-> 0, waits |-> << >>,
      session |-> "loaded", prev |-> "none", paced |-> 0, errors |-> 0 ]

\* the job has not reached the player loop of the club
NoPlayerLoop ==
    [ pc |-> "idle", visited |-> 0, players_scraped |-> 0,
      cancelled |-> FALSE, since |-> 0 ]

\* the clock, in seconds, stops here
MaxClock == 2

\* "_interclubs_scrape_logs = {}" and "_current_interclubs_scrape = None",
\* and no job started: the keys are the task ids that have a buffer
NoKeyed ==
    [ jobs |-> << >>, keys |-> {}, logs |-> [id \in 0..MaxClock |-> << >>],
      status |-> "none" ]

\* no request has been answered yet
NoReply == [ family |-> "none", op |-> "none", code |-> 0 ]

\* what a handler answers: 200, or the status code of its HTTPException
Codes == {200, 404, 409}

\* the answer of a handler as a client sees it
Reply(family, op, code) == [ family |-> family, op |-> op, code |-> code ]

----------------------------------------------------------------------------
(* Relational store: interclubs_rankings *)

SameKey(r, s) ==
    /\ r.division_index = s.division_index
    /\ r.week = s.week
    /\ r.team_name = s.team_name

\* ON CONFLICT(division_index, week, team_name) DO UPDATE SET
\*   rank = excluded.rank, ..., points = excluded.points
MergeRow(old, new) ==
    [ old EXCEPT !.rank = new.rank, !.points = new.points ]

\* the statement without its ON CONFLICT clause, on a table without the
\* UNIQUE constraint
InsertRankingPlain(table, row) == table (+) SetToBag({row})

\* one INSERT ... ON CONFLICT DO UPDATE statement
InsertRanking(table, row) ==
    IF \E r \in BagToSet(table) : SameKey(r, row)
    THEN LET old == CHOOSE r \in BagToSet(table) : SameKey(r, row)
         IN  (table (-) SetToBag({old})) (+) SetToBag({MergeRow(old, row)})
    ELSE table (+) SetToBag({row})

\* the statements of one batch, committed together
RECURSIVE InsertBatch(_, _)
InsertBatch(table, rows) ==
    IF rows = <<>> THEN table
    ELSE InsertBatch(InsertRanking(table, Head(rows)), Tail(rows))

\* the batch in a transaction of its own that commits after every statement
\* instead of once at the end
RankingsBatchAutocommit(table, rows, failAt) ==
    IF failAt = 0 THEN InsertBatch(table, rows)
    ELSE InsertBatch(table, SubSeq(rows, 1, failAt - 1))

\* insert_interclubs_rankings_batch inside "with get_db()": statement failAt
\* raises (0: none does); get_db commits at the end of the block, and on an
\* exception rolls back what the statements before it wrote
RankingsBatch(table, rows, failAt) ==
    IF failAt = 0 THEN InsertBatch(table, rows)
    ELSE table

\* _parse_rankings_table on a page with n table rows for (d, w)
ParsedRankings(item, n) ==
    [ t \in 1..n |->
        [ division_index |-> item[1], week |-> item[2], team_name |-> t,
          rank |-> t, points |-> t ] ]

----------------------------------------------------------------------------
(* Operator requests (event loop) *)

\* POST /scrape/interclubs with weeks=week_list, divisions=div_list and
\* resume_division, resume_week = rf; answers 409 and changes nothing while a record reads
\* 'running', else creates the driver task and answers "started"
StartInterclubsScrapeAnswers(week_list, div_list, rf, code) ==
    IF cur.status = "running"
    THEN /\ code = 409
         /\ UNCHANGED state
    ELSE \E j \in Jobs :
            /\ pc[j] = "idle"
            /\ \A i \in Jobs : i < j => pc[i] # "idle"
            /\ pc' = [pc EXCEPT ![j] = "scheduled"]
            /\ args' = [args EXCEPT ![j] =
                    [weeks |-> week_list, division_indices |-> div_list,
                     resume_from |-> rf]]
            /\ code = 200
            /\ UNCHANGED << cur, crawl, store, plan, cancelled, lastUpsert,
                            otherThanRanking >>

\* the request as the job engine sees it, whatever the client does with the
\* answer
StartInterclubsScrape(week_list, div_list, rf) ==
    /\ \E code \in Codes : StartInterclubsScrapeAnswers(week_list, div_list, rf, code)
    /\ UNCHANGED reply

\* POST /scrape/interclubs/cancel; answers 404 and changes nothing unless a
\* record reads 'running'
CancelInterclubsScrapeAnswers(code) ==
    IF cur.status # "running"
    THEN /\ code = 404
         /\ UNCHANGED state
    ELSE /\ cur' = [cur EXCEPT !.status = "cancelled", !.finished_at = TRUE]
         /\ cancelled' = cancelled \cup {cur.owner}
         /\ code = 200
         /\ UNCHANGED << pc, args, crawl, store, plan, lastUpsert, otherThanRanking >>

CancelInterclubsScrape ==
    /\ \E code \in Codes : CancelInterclubsScrapeAnswers(code)
    /\ UNCHANGED reply

----------------------------------------------------------------------------
(* Job driver: run_interclubs_scrape *)

\* first stretch of the task, up to the await of the crawl thread
DriverBegin(j) ==
    /\ pc[j] = "scheduled"
    /\ cur' = NewScrape(j)
    /\ pc' = [pc EXCEPT ![j] = "awaiting"]
    /\ crawl' = [crawl EXCEPT ![j] = [NoCrawl EXCEPT !.cpc = "setup"]]
    /\ UNCHANGED << args, store, plan, cancelled, lastUpsert, notRanking >>

\* the record the completion path leaves
FinishedScrape(rec, stats) ==
    [ rec EXCEPT !.status = "success", !.finished_at = TRUE,
                 !.total_rankings = stats.total_rankings,
                 !.errors_count = Len(stats.errors),
                 !.last_success = stats.last_success ]

\* the record the except path leaves
FailedScrape(rec) ==
    [ rec EXCEPT !.status = "failed", !.finished_at = TRUE,
                 !.errors_count = rec.errors_count + 1 ]

\* the await returned stats; the task ends and its thread and arguments are gone
DriverFinish(j) ==
    /\ pc[j] = "awaiting"
    /\ crawl[j].cpc = "returned"
    /\ cur' = FinishedScrape(cur, crawl[j])
    /\ pc' = [pc EXCEPT ![j] = "done"]
    /\ crawl' = [crawl EXCEPT ![j] = NoCrawl]
    /\ args' = [args EXCEPT ![j] = NoArgs]
    /\ cancelled' = cancelled \ {j}
    /\ UNCHANGED << store, plan, lastUpsert, notRanking >>

\* the await raised; the task ends and its thread and arguments are gone
DriverFail(j) ==
    /\ pc[j] = "awaiting"
    /\ crawl[j].cpc = "raised"
    /\ cur' = FailedScrape(cur)
    /\ pc' = [pc EXCEPT ![j] = "done"]
    /\ crawl' = [crawl EXCEPT ![j] = NoCrawl]
    /\ args' = [args EXCEPT ![j] = NoArgs]
    /\ cancelled' = cancelled \ {j}
    /\ UNCHANGED << store, plan, lastUpsert, notRanking >>

----------------------------------------------------------------------------
(* Crawl coordinator: scrape_all_interclubs_rankings (worker thread) *)

\* filtered divisions x weeks for each week list and filter, in visiting order
SpaceOf ==
    [wl \in WeekLists, df \in DivisionFilters |-> SpaceFrom(Selected(Catalog, df), wl, 1)]

\* the space of job j
Space(j) == SpaceOf[args[j].weeks, args[j].division_indices]

\* the closure handed to the crawl: reads the module global when called
IsCancelled == cur.status # "running"

\* load the start page, extract and save the catalog, set up the loop
CrawlSetup(j) ==
    /\ crawl[j].cpc = "setup"
    /\ \E outcome \in {"ok", "empty", "raise"} :
         crawl' = [crawl EXCEPT ![j] =
            CASE outcome = "ok" ->
                    [@ EXCEPT !.cpc = "check", !.total_divisions = Len(Catalog),
                              !.skipping = (args[j].resume_from # None)]
              [] outcome = "empty" -> [@ EXCEPT !.cpc = "returned"]
              [] OTHER ->
                    [@ EXCEPT !.cpc = "raised", !.errors = Append(@, None)] ]
    /\ UNCHANGED << cur, pc, args, store, plan, cancelled, lastUpsert, notRanking >>

\* a skip test that resumes at the first item at or after the coordinate
ResumeHereOrAfter(item, skip_until) ==
    \/ item[1] > skip_until[1]
    \/ item[1] = skip_until[1] /\ item[2] >= skip_until[2]

\* does the skip test of the loop let this item through?
ResumeHere(item, skip_until) == item = skip_until

\* head of one loop iteration: end of space, cancellation check, resume skip
CrawlCheck(j) ==
    /\ crawl[j].cpc = "check"
    /\ crawl' = [crawl EXCEPT ![j] =
         IF crawl[j].idx > Len(Space(j)) THEN [@ EXCEPT !.cpc = "returned"]
         ELSE IF IsCancelled THEN [@ EXCEPT !.cpc = "returned"]
         ELSE IF crawl[j].skipping /\ ~ResumeHere(Space(j)[crawl[j].idx], args[j].resume_from)
              THEN [@ EXCEPT !.idx = @ + 1]
         ELSE [@ EXCEPT !.cpc = "attempt", !.skipping = FALSE, !.retries = 0] ]
    /\ UNCHANGED << cur, pc, args, store, plan, cancelled, lastUpsert, notRanking >>

\* last_success moved inside "if rankings:"
StatsAfterSuccessOnlyWithRows(c, item, n) ==
    [ c EXCEPT !.total_rankings = @ + n,
               !.last_success = IF n > 0 THEN item ELSE @,
               !.cpc = "check", !.idx = @ + 1 ]

\* stats after a successful attempt that yielded n rows
StatsAfterSuccess(c, item, n) ==
    [ c EXCEPT !.total_rankings = @ + n, !.last_success = item,
               !.cpc = "check", !.idx = @ + 1 ]

\* the error entry appended at every failed attempt
StatsAfterFailureEveryAttempt(c, item) ==
    IF c.retries + 1 < MAX_RETRIES
    THEN [c EXCEPT !.retries = @ + 1, !.errors = Append(@, item)]
    ELSE [c EXCEPT !.retries = @ + 1, !.errors = Append(@, item),
                   !.cpc = "check", !.idx = @ + 1]

\* loop state after an attempt that raised
StatsAfterFailure(c, item) ==
    IF c.retries + 1 < MAX_RETRIES
    THEN [c EXCEPT !.retries = @ + 1]
    ELSE [c EXCEPT !.retries = @ + 1, !.errors = Append(@, item),
                   !.cpc = "check", !.idx = @ + 1]

\* the try block with "stats['last_success'] = ..." moved before the save
AttemptMarksBeforeSave(j, ok, n, failAt) ==
    LET item == Space(j)[crawl[j].idx] IN
    /\ crawl[j].cpc = "attempt"
    /\ IF ~ok
       THEN /\ store' = store
            /\ crawl' = [crawl EXCEPT ![j] = StatsAfterFailure(@, item)]
       ELSE /\ store' = RankingsBatch(store, ParsedRankings(item, n), failAt)
            /\ crawl' = [crawl EXCEPT ![j] =
                    IF failAt = 0 THEN StatsAfterSuccess(@, item, n)
                    ELSE [StatsAfterFailure(@, item) EXCEPT !.last_success = item]]
    /\ UNCHANGED << cur, pc, args, cancelled, lastUpsert, notRanking >>

\* one pass through the try block of the retry loop: the navigation raises
\* (~ok), or the page yields n rows and statement failAt of their batch
\* raises (0: the batch commits; no batch is made for an empty page)
Attempt(j, ok, n, failAt) ==
    LET item == Space(j)[crawl[j].idx] IN
    /\ crawl[j].cpc = "attempt"
    /\ IF ~ok
       THEN /\ store' = store
            /\ crawl' = [crawl EXCEPT ![j] = StatsAfterFailure(@, item)]
       ELSE /\ store' = RankingsBatch(store, ParsedRankings(item, n), failAt)
            /\ crawl' = [crawl EXCEPT ![j] =
                    IF failAt = 0 THEN StatsAfterSuccess(@, item, n)
                    ELSE StatsAfterFailure(@, item)]
    /\ UNCHANGED << cur, pc, args, cancelled, lastUpsert, notRanking >>

\* the remote target answers as it likes
CrawlAttempt(j) ==
    /\ \E ok \in BOOLEAN : \E n \in RecCounts : \E failAt \in 0..n :
          /\ (~ok => n = 0)
          /\ Attempt(j, ok, n, failAt)
    /\ UNCHANGED plan

----------------------------------------------------------------------------
Init ==
    /\ cur = NoScrape
    /\ pc = [j \in Jobs |-> "idle"]
    /\ args = [j \in Jobs |-> NoArgs]
    /\ crawl = [j \in Jobs |-> NoCrawl]
    /\ store = EmptyBag
    /\ plan = [it \in Items |-> Undecided]
    /\ cancelled = {}
    /\ lastUpsert = <<>>
    /\ tasks = <<>>
    /\ run = [t \in Jobs |-> NoRun]
    /\ loop = 0
    /\ tcur = NoTournamentScrape
    /\ trun = [j \in Jobs |-> NoTournamentRun]
    /\ tstore = EmptyBag
    /\ logs = [f \in Families |-> <<>>]
    /\ appended = [f \in Families |-> <<>>]
    /\ now = 0
    /\ lastUpdate = NoCall
    /\ history = NoHistory
    /\ retried = NoOp
    /\ ploop = NoPlayerLoop
    /\ keyed = NoKeyed
    /\ players = {}
    /\ lastPlayer = NoPlayer
    /\ reply = NoReply

Next ==
    \/ \E rf \in {None, cur.last_success} : StartInterclubsScrape(OneWeek, AllDivisions, rf)
    \/ CancelInterclubsScrape
    \/ \E j \in Jobs : DriverBegin(j)
    \/ \E j \in Jobs : DriverFinish(j)
    \/ \E j \in Jobs : DriverFail(j)
    \/ \E j \in Jobs : CrawlSetup(j)
    \/ \E j \in Jobs : CrawlCheck(j)
    \/ \E j \in Jobs : CrawlAttempt(j)

Spec == Init /\ [][Next]_vars

----------------------------------------------------------------------------
(* The remote target with a fixed outcome per work item *)

\* the plan of a work item is drawn when the item is first attempted and
\* every later attempt of that item, in any run, follows it; the store
\* accepts every batch
CrawlAttemptFixed(j) ==
    /\ crawl[j].cpc = "attempt"
    /\ LET item == Space(j)[crawl[j].idx] IN
       \E p \in FetchPlans :
          /\ plan[item] \in {Undecided, p}
          /\ plan' = [plan EXCEPT ![item] = p]
          /\ Attempt(j, crawl[j].retries >= p.fails,
                     IF crawl[j].retries >= p.fails THEN p.recs ELSE 0, 0)

\* the operator's resume protocol: a run is requested while the status reads
\* 'running' (and is refused), or once the previous driver has ended, with
\* resume_from set to the last_success the status reports (none at first)
StartNextRun ==
    /\ cur.status = "running" \/ \A j \in Jobs : pc[j] \in {"idle", "done"}
    /\ StartInterclubsScrape(TwoWeeks, AllDivisions, cur.last_success)

NextFixed ==
    \/ StartNextRun
    \/ CancelInterclubsScrape
    \/ \E j \in Jobs : DriverBegin(j)
    \/ \E j \in Jobs : DriverFinish(j)
    \/ \E j \in Jobs : DriverFail(j)
    \/ \E j \in Jobs : CrawlSetup(j)
    \/ \E j \in Jobs : CrawlCheck(j)
    \/ \E j \in Jobs : CrawlAttemptFixed(j)

SpecFixed == Init /\ [][NextFixed]_vars

----------------------------------------------------------------------------
(* Relational store on its own: upserts of ranking rows *)

\* values a caller can put in rank and points
RankValues == {Null, 1, 2}
PointsValues == {Null, 9, 12}
TeamNames == {1, 2}

RankingDicts ==
    [ division_index : {0}, week : {1}, team_name : TeamNames,
      rank : RankValues, points : PointsValues ]

\* insert_interclubs_ranking(ranking)
InsertInterclubsRanking ==
    \E row \in RankingDicts :
        /\ store' = InsertRanking(store, row)
        /\ lastUpsert' = << row >>
        /\ UNCHANGED << cur, pc, args, crawl, plan, cancelled, notRanking >>

\* insert_interclubs_rankings_batch(rankings), one row per team of the page
InsertInterclubsRankingsBatch ==
    \E r1, r2 \in RankingDicts :
        /\ r1.team_name < r2.team_name
        /\ store' = InsertBatch(store, << r1, r2 >>)
        /\ lastUpsert' = << r1, r2 >>
        /\ UNCHANGED << cur, pc, args, crawl, plan, cancelled, notRanking >>

NextUpsert ==
    \/ InsertInterclubsRanking
    \/ InsertInterclubsRankingsBatch

SpecUpsert == Init /\ [][NextUpsert]_vars

----------------------------------------------------------------------------
(* The ranking crawl on a store that can refuse a statement *)

\* rows of every page of this remote target
PageRows == 2

\* every navigation succeeds and shows PageRows rows; the batch commits or
\* one of its statements raises
CrawlAttemptStoreFault(j) ==
    /\ \E failAt \in 0..PageRows : Attempt(j, TRUE, PageRows, failAt)
    /\ UNCHANGED plan

\* a run over the whole space is requested while at most one earlier task is
\* still alive
StartFreshRun ==
    /\ Cardinality({j \in Jobs : pc[j] \notin {"idle", "done"}}) <= 1
    /\ StartInterclubsScrape(OneWeek, AllDivisions, None)

NextStoreFaults ==
    \/ StartFreshRun
    \/ CancelInterclubsScrape
    \/ \E j \in Jobs : DriverBegin(j)
    \/ \E j \in Jobs : DriverFinish(j)
    \/ \E j \in Jobs : DriverFail(j)
    \/ \E j \in Jobs : CrawlSetup(j)
    \/ \E j \in Jobs : CrawlCheck(j)
    \/ \E j \in Jobs : CrawlAttemptStoreFault(j)

SpecStoreFaults == Init /\ [][NextStoreFaults]_vars

----------------------------------------------------------------------------
(* Roster family: start_full_scrape_endpoint, cancel_scrape and             *)
(* run_full_scrape (src/src/api/routers/scraping.py) over table             *)
(* scrape_tasks.  run_full_scrape is a coroutine of the event loop: it      *)
(* gives the loop back only at an await, and its page fetches               *)
(* (get_club_members, get_player_info) are plain calls that keep the loop   *)
(* until they return.                                                       *)

\* number of clubs in table clubs
NumClubs == 2
\* get_all_clubs(): the clubs in order, each with its code
AllClubs == [i \in 1..NumClubs |-> i]
\* sizes of the player list a club page can give
PlayerCounts == {0, 2}

\* a keyword argument of update_scrape_task left at None
NoStatus == "unset"
NoUpdate ==
    [ completed_clubs |-> Null, total_clubs |-> Null, current_club |-> Null,
      status |-> NoStatus, errors_count |-> Null ]

\* the row INSERT INTO scrape_tasks (trigger_type, total_clubs, status)
\* VALUES (?, ?, 'running') makes, with the column defaults
NewTask(total_clubs) ==
    [ status |-> "running", total_clubs |-> total_clubs, completed_clubs |-> 0,
      current_club |-> Null, errors_count |-> 0,
      started_at |-> now, finished_at |-> Null ]

\* update_scrape_task: only the arguments that are not None reach the UPDATE
UpdateScrapeTask(rows, task_id, u) ==
    [ rows EXCEPT ![task_id] =
        [ @ EXCEPT
            !.completed_clubs = IF u.completed_clubs # Null THEN u.completed_clubs ELSE @,
            !.total_clubs = IF u.total_clubs # Null THEN u.total_clubs ELSE @,
            !.current_club = IF u.current_club # Null THEN u.current_club ELSE @,
            !.status = IF u.status # NoStatus THEN u.status ELSE @,
            !.errors_count = IF u.errors_count # Null THEN u.errors_count ELSE @,
            !.finished_at = IF u.status \in Terminal THEN now ELSE @ ] ]

\* a lookup that never finds a running row
GetCurrentScrapeTaskNone(rows) == 0

\* a lookup that ignores the status: the most recently started row
GetCurrentScrapeTaskLatest(rows) == Len(rows)

\* get_current_scrape_task: the id of the most recently started row whose
\* status is 'running', 0 for no row
GetCurrentScrapeTask(rows) ==
    IF \E t \in 1..Len(rows) : rows[t].status = "running"
    THEN CHOOSE t \in 1..Len(rows) :
            /\ rows[t].status = "running"
            /\ \A u \in 1..Len(rows) : rows[u].status = "running" => u <= t
    ELSE 0

\* POST /scrape/all; answers 409 and changes nothing while a row is running
StartFullScrapeAnswers(code) ==
    /\ loop = 0
    /\ IF GetCurrentScrapeTask(tasks) # 0
       THEN /\ code = 409
            /\ UNCHANGED state
       ELSE /\ Len(tasks) < NumJobs
            /\ tasks' = Append(tasks, NewTask(Len(AllClubs)))
            /\ run' = [run EXCEPT ![Len(tasks) + 1] = [NoRun EXCEPT !.rpc = "scheduled"]]
            /\ code = 200
            /\ UNCHANGED << loop, otherThanRoster >>

StartFullScrape ==
    /\ \E code \in Codes : StartFullScrapeAnswers(code)
    /\ UNCHANGED reply

\* POST /scrape/cancel; answers 404 and changes nothing when no row is running
CancelScrapeAnswers(code) ==
    /\ loop = 0
    /\ LET current == GetCurrentScrapeTask(tasks) IN
       IF current = 0
       THEN /\ code = 404
            /\ UNCHANGED state
       ELSE /\ tasks' = UpdateScrapeTask(tasks, current,
                            [NoUpdate EXCEPT !.status = "cancelled"])
            /\ code = 200
            /\ UNCHANGED << run, loop, otherThanRoster >>

CancelScrape ==
    /\ \E code \in Codes : CancelScrapeAnswers(code)
    /\ UNCHANGED reply

\* the task starts: get_all_clubs and the update of total_clubs, either of
\* which can raise
RosterBegin(t) ==
    /\ run[t].rpc = "scheduled"
    /\ loop = 0
    /\ loop' = t
    /\ \E raises \in BOOLEAN :
         IF raises
         THEN /\ run' = [run EXCEPT ![t].rpc = "except"]
              /\ tasks' = tasks
         ELSE /\ run' = [run EXCEPT ![t].rpc = "club"]
              /\ tasks' = UpdateScrapeTask(tasks, t,
                              [NoUpdate EXCEPT !.total_clubs = Len(AllClubs)])
    /\ UNCHANGED notRoster

\* loop state once the club at idx has ended ("completed += 1"), at the
\* await of asyncio.sleep(1.0)
ClubEnded(r) ==
    [ r EXCEPT !.rpc = "club", !.idx = @ + 1, !.completed = @ + 1, !.left = 0 ]

\* the same after the except of the club: "errors.append(error_msg)"
ClubFailed(r) == [ ClubEnded(r) EXCEPT !.errors = @ + 1 ]

\* head of the club loop, or what follows the loop: the final update, the
\* cancellation check on the task's own row, the progress update and the call
\* of get_club_members; each store call can raise
RosterClub(t) ==
    /\ run[t].rpc = "club"
    /\ loop \in {0, t}
    /\ \E raises \in BOOLEAN :
         IF raises
         THEN /\ run' = [run EXCEPT ![t].rpc = "except"]
              /\ tasks' = tasks
              /\ loop' = t
         ELSE IF run[t].idx > Len(AllClubs)
         THEN /\ tasks' = UpdateScrapeTask(tasks, t,
                              [NoUpdate EXCEPT !.completed_clubs = run[t].completed,
                                               !.status = "success",
                                               !.errors_count = run[t].errors])
              /\ run' = [run EXCEPT ![t] = [NoRun EXCEPT !.rpc = "done"]]
              /\ loop' = 0
         ELSE IF tasks[t].status = "cancelled"
         THEN /\ tasks' = tasks
              /\ run' = [run EXCEPT ![t] = [NoRun EXCEPT !.rpc = "done"]]
              /\ loop' = 0
         ELSE /\ tasks' = UpdateScrapeTask(tasks, t,
                              [NoUpdate EXCEPT !.completed_clubs = run[t].completed,
                                               !.current_club = AllClubs[run[t].idx]])
              /\ run' = [run EXCEPT ![t].rpc = "members"]
              /\ loop' = t
    /\ UNCHANGED notRoster

\* get_club_members returns the member list or raises; then the await of
\* get_club_ranking_players_async, or the except of the club and the pause
RosterMembers(t) ==
    /\ run[t].rpc = "members"
    /\ loop = t
    /\ loop' = 0
    /\ \E raises \in BOOLEAN : \E n \in PlayerCounts :
         run' = [run EXCEPT ![t] =
                    IF raises THEN ClubFailed(@)
                    ELSE [@ EXCEPT !.rpc = "ranking", !.left = n]]
    /\ UNCHANGED << tasks, notRoster >>

\* after the ranking page: the base records are stored (insert_player can
\* raise, which ends the club) and the first player page is requested
RosterPlayers(t) ==
    /\ run[t].rpc = "ranking"
    /\ loop = 0
    /\ \E raises \in BOOLEAN :
         IF raises \/ run[t].left = 0
         THEN /\ run' = [run EXCEPT ![t] = IF raises THEN ClubFailed(@) ELSE ClubEnded(@)]
              /\ loop' = 0
         ELSE /\ run' = [run EXCEPT ![t].rpc = "player"]
              /\ loop' = t
    /\ UNCHANGED << tasks, notRoster >>

\* get_player_info returns or raises; either way the loop goes on after an
\* await of asyncio.sleep
RosterPlayerFetched(t) ==
    /\ run[t].rpc = "player"
    /\ loop = t
    /\ run' = [run EXCEPT ![t].rpc = "paced", ![t].left = @ - 1]
    /\ loop' = 0
    /\ UNCHANGED << tasks, notRoster >>

\* after the pause: the next player page, or the end of the club
RosterNextPlayer(t) ==
    /\ run[t].rpc = "paced"
    /\ loop = 0
    /\ IF run[t].left = 0
       THEN /\ run' = [run EXCEPT ![t] = ClubEnded(@)]
            /\ loop' = 0
       ELSE /\ run' = [run EXCEPT ![t].rpc = "player"]
            /\ loop' = t
    /\ UNCHANGED << tasks, notRoster >>

\* the outer except: update_scrape_task(task_id, status='failed', ...), which
\* can raise as well and then ends the task
RosterExcept(t) ==
    /\ run[t].rpc = "except"
    /\ loop = t
    /\ loop' = 0
    /\ run' = [run EXCEPT ![t] = [NoRun EXCEPT !.rpc = "done"]]
    /\ \E raises \in BOOLEAN :
         tasks' = IF raises THEN tasks
                  ELSE UpdateScrapeTask(tasks, t, [NoUpdate EXCEPT !.status = "failed"])
    /\ UNCHANGED notRoster

RosterStep(t) ==
    \/ RosterBegin(t)
    \/ RosterClub(t)
    \/ RosterMembers(t)
    \/ RosterPlayers(t)
    \/ RosterPlayerFetched(t)
    \/ RosterNextPlayer(t)
    \/ RosterExcept(t)

NextRoster ==
    \/ StartFullScrape
    \/ CancelScrape
    \/ \E t \in Jobs : RosterBegin(t)
    \/ \E t \in Jobs : RosterClub(t)
    \/ \E t \in Jobs : RosterMembers(t)
    \/ \E t \in Jobs : RosterPlayers(t)
    \/ \E t \in Jobs : RosterPlayerFetched(t)
    \/ \E t \in Jobs : RosterNextPlayer(t)
    \/ \E t \in Jobs : RosterExcept(t)

SpecRoster == Init /\ [][NextRoster]_vars

\* the event loop runs every task that is ready
SpecRosterFair ==
    Init /\ [][NextRoster]_vars /\ \A t \in Jobs : WF_vars(RosterStep(t))

----------------------------------------------------------------------------
(* Tournament family: start_tournament_scrape, cancel_tournament_scrape and *)
(* run_tournament_scrape (src/src/api/routers/tournaments.py).  The job     *)
(* record is the module global; the coroutine reads and writes it through   *)
(* the global name at every access.  A step is one stretch of the           *)
(* coroutine between two awaits.                                            *)

\* number of tournaments the remote list shows
NumTournaments == 2
Tournaments == 1..NumTournaments

\* what the remote target shows, the same at every fetch: the list of
\* tournaments, and for tournament t one series, one inscription, one result
TournamentRows == [t \in Tournaments |-> [tbl |-> "tournaments", tournament_id |-> t]]
SeriesOf(t) == << [tbl |-> "tournament_series", tournament_id |-> t] >>
InscriptionsOf(t) == << [tbl |-> "tournament_inscriptions", tournament_id |-> t] >>
ResultsOf(t) == << [tbl |-> "tournament_results", tournament_id |-> t] >>

\* INSERT ... ON CONFLICT(<natural key>) DO UPDATE of insert_tournament,
\* insert_tournament_series and insert_tournament_inscription; the rows of
\* the model carry their key columns only
UpsertRow(table, row) ==
    IF BagIn(row, table) THEN table ELSE table (+) SetToBag({row})

\* the plain INSERT of insert_tournament_result into a table without a
\* UNIQUE constraint
InsertRow(table, row) == table (+) SetToBag({row})

RECURSIVE UpsertRows(_, _)
UpsertRows(table, rows) ==
    IF rows = <<>> THEN table
    ELSE UpsertRows(UpsertRow(table, Head(rows)), Tail(rows))

RECURSIVE InsertRows(_, _)
InsertRows(table, rows) ==
    IF rows = <<>> THEN table
    ELSE InsertRows(InsertRow(table, Head(rows)), Tail(rows))

\* the dict built by the coroutine; owner is the identity of the job it is
\* built for, errors the length of its 'errors' list
NewTournamentScrape(j) ==
    [ owner |-> j, status |-> "running", finished_at |-> FALSE,
      total_tournaments |-> 0, completed_tournaments |-> 0,
      current_tournament |-> Null, errors |-> 0 ]

TournamentRunEnded == [ tpc |-> "done", i |-> 1 ]

\* a start that is also refused while a ranking job is running
StartTournamentScrapeAnswersOneAtATime(code) ==
    IF tcur.status = "running" \/ cur.status = "running"
    THEN /\ code = 409
         /\ UNCHANGED state
    ELSE \E j \in Jobs :
            /\ trun[j].tpc = "idle"
            /\ \A k \in Jobs : k < j => trun[k].tpc # "idle"
            /\ trun' = [trun EXCEPT ![j].tpc = "scheduled"]
            /\ code = 200
            /\ UNCHANGED << tcur, tstore, otherThanTournament >>

\* POST /scrape/tournaments
StartTournamentScrapeAnswers(code) ==
    IF tcur.status = "running"
    THEN /\ code = 409
         /\ UNCHANGED state
    ELSE \E j \in Jobs :
            /\ trun[j].tpc = "idle"
            /\ \A k \in Jobs : k < j => trun[k].tpc # "idle"
            /\ trun' = [trun EXCEPT ![j].tpc = "scheduled"]
            /\ code = 200
            /\ UNCHANGED << tcur, tstore, otherThanTournament >>

StartTournamentScrape ==
    /\ \E code \in Codes : StartTournamentScrapeAnswers(code)
    /\ UNCHANGED reply

\* POST /scrape/tournaments/cancel
CancelTournamentScrapeAnswers(code) ==
    IF tcur.status # "running"
    THEN /\ code = 404
         /\ UNCHANGED state
    ELSE /\ tcur' = [tcur EXCEPT !.status = "cancelled", !.finished_at = TRUE]
         /\ code = 200
         /\ UNCHANGED << trun, tstore, otherThanTournament >>

CancelTournamentScrape ==
    /\ \E code \in Codes : CancelTournamentScrapeAnswers(code)
    /\ UNCHANGED reply

\* the loop at tournament number i, up to the first await: what follows the
\* loop when the list is exhausted, the cancellation check, the progress
\* fields, and the series of the tournament (the fetch can raise).  rec is
\* the global as the stretch finds it.
TournamentHead(j, rec, table, i) ==
    IF i > NumTournaments
    THEN /\ tcur' = [rec EXCEPT !.completed_tournaments = NumTournaments,
                                !.status = "success", !.finished_at = TRUE]
         /\ trun' = [trun EXCEPT ![j] = TournamentRunEnded]
         /\ tstore' = table
    ELSE IF rec.status # "running"
    THEN /\ tcur' = rec
         /\ trun' = [trun EXCEPT ![j] = TournamentRunEnded]
         /\ tstore' = table
    ELSE \E ok \in BOOLEAN :
         LET entered == [rec EXCEPT !.current_tournament = i,
                                    !.completed_tournaments = i - 1]
         IN  IF ok
             THEN /\ tcur' = entered
                  /\ tstore' = UpsertRows(table, SeriesOf(i))
                  /\ trun' = [trun EXCEPT ![j] = [tpc |-> "inscriptions", i |-> i]]
             ELSE /\ tcur' = [entered EXCEPT !.errors = @ + 1]
                  /\ tstore' = table
                  /\ trun' = [trun EXCEPT ![j] = [tpc |-> "pause", i |-> i]]

\* the task starts: the record, the list of tournaments (the fetch can
\* raise, which the outer except turns into 'failed'), their rows, and the
\* first pass through the head of the loop
TournamentBegin(j) ==
    /\ trun[j].tpc = "scheduled"
    /\ \E listed \in BOOLEAN :
         IF listed
         THEN TournamentHead(j,
                 [NewTournamentScrape(j) EXCEPT !.total_tournaments = NumTournaments],
                 UpsertRows(tstore, TournamentRows), 1)
         ELSE /\ tcur' = [NewTournamentScrape(j) EXCEPT
                            !.status = "failed", !.errors = 1, !.finished_at = TRUE]
              /\ trun' = [trun EXCEPT ![j] = TournamentRunEnded]
              /\ tstore' = tstore
    /\ UNCHANGED notTournament

\* after asyncio.sleep(0.2): the inscriptions of the tournament
TournamentInscriptions(j) ==
    /\ trun[j].tpc = "inscriptions"
    /\ \E ok \in BOOLEAN :
         IF ok
         THEN /\ tstore' = UpsertRows(tstore, InscriptionsOf(trun[j].i))
              /\ trun' = [trun EXCEPT ![j].tpc = "results"]
              /\ tcur' = tcur
         ELSE /\ tstore' = tstore
              /\ trun' = [trun EXCEPT ![j].tpc = "pause"]
              /\ tcur' = [tcur EXCEPT !.errors = @ + 1]
    /\ UNCHANGED notTournament

\* after asyncio.sleep(0.2): the results of the tournament
TournamentResults(j) ==
    /\ trun[j].tpc = "results"
    /\ \E ok \in BOOLEAN :
         IF ok
         THEN /\ tstore' = InsertRows(tstore, ResultsOf(trun[j].i))
              /\ tcur' = tcur
         ELSE /\ tstore' = tstore
              /\ tcur' = [tcur EXCEPT !.errors = @ + 1]
    /\ trun' = [trun EXCEPT ![j].tpc = "pause"]
    /\ UNCHANGED notTournament

\* after asyncio.sleep(0.3): the next tournament
TournamentNext(j) ==
    /\ trun[j].tpc = "pause"
    /\ TournamentHead(j, tcur, tstore, trun[j].i + 1)
    /\ UNCHANGED notTournament

NextTournament ==
    \/ StartTournamentScrape
    \/ CancelTournamentScrape
    \/ \E j \in Jobs : TournamentBegin(j)
    \/ \E j \in Jobs : TournamentInscriptions(j)
    \/ \E j \in Jobs : TournamentResults(j)
    \/ \E j \in Jobs : TournamentNext(j)

SpecTournament == Init /\ [][NextTournament]_vars

----------------------------------------------------------------------------
(* Log buffers: _add_log (scraping.py) and the add_log closures of          *)
(* run_tournament_scrape and run_interclubs_scrape, one buffer per task id  *)

\* capacity of the buffer of a roster or tournament task (1000 in the
\* source) and of a ranking task (2000 in the source), scaled down
SmallLogCap == 3
LargeLogCap == 5
\* number of messages a task appends
MaxAppends == 8

LogCap == [f \in Families |-> IF f = "ranking" THEN LargeLogCap ELSE SmallLogCap]

\* the slice buf[-cap:]
LastOf(buf, cap) ==
    IF Len(buf) > cap THEN SubSeq(buf, Len(buf) - cap + 1, Len(buf)) ELSE buf

\* the trim keeping buf[:cap]
AddLogKeepFirst(buf, msg, cap) ==
    IF Len(Append(buf, msg)) > cap
    THEN SubSeq(Append(buf, msg), 1, cap)
    ELSE Append(buf, msg)

\* append, then "if len(buf) > cap: buf = buf[-cap:]"
AddLog(buf, msg, cap) ==
    IF Len(Append(buf, msg)) > cap
    THEN LastOf(Append(buf, msg), cap)
    ELSE Append(buf, msg)

\* the task of family f logs its next message; messages are told apart by
\* their place in the task's sequence of messages
LogMessage(f) ==
    /\ Len(appended[f]) < MaxAppends
    /\ LET msg == Len(appended[f]) + 1 IN
       /\ logs' = [logs EXCEPT ![f] = AddLog(@, msg, LogCap[f])]
       /\ appended' = [appended EXCEPT ![f] = Append(@, msg)]
    /\ UNCHANGED notLog

NextLog == \E f \in Families : LogMessage(f)

SpecLog == Init /\ [][NextLog]_vars

----------------------------------------------------------------------------
(* Relational store on its own: upserts of player rows (insert_player),     *)
(* as run_full_scrape makes them: the base record of the roster, then the   *)
(* record of the player page                                                *)

\* the empty string in column name
EmptyName == 0

\* the dicts a caller can pass: a key is absent, None, or has a value
PlayerDicts ==
    [ licence : {1}, name : {Absent, EmptyName, 1, 2},
      points_start : {Absent, Null, 100},
      points_current : {Absent, 120, 130},
      total_wins : {Absent, Null, 7} ]

\* player.get(key, default)
Get(player, key, default) ==
    IF player[key] = Absent THEN default ELSE player[key]

\* the parameters of the statement ("data")
PlayerData(player) ==
    [ licence |-> player.licence,
      name |-> Get(player, "name", Null),
      points_start |-> Get(player, "points_start", Null),
      points_current |-> Get(player, "points_current", Null),
      total_wins |-> Get(player, "total_wins", 0) ]

\* COALESCE(a, b) and NULLIF(a, '')
Coalesce(a, b) == IF a # Null THEN a ELSE b
NullIfEmpty(a) == IF a = EmptyName THEN Null ELSE a

\* ON CONFLICT(licence) DO UPDATE SET ...
MergePlayer(old, excluded) ==
    [ licence |-> old.licence,
      name |-> Coalesce(NullIfEmpty(excluded.name), old.name),
      points_start |-> Coalesce(excluded.points_start, old.points_start),
      points_current |-> Coalesce(excluded.points_current, old.points_current),
      total_wins |-> Coalesce(excluded.total_wins, old.total_wins) ]

\* the INSERT ... ON CONFLICT statement on the table; column name is NOT
\* NULL, and a statement that carries NULL for it raises and writes nothing
UpsertPlayer(table, data) ==
    IF data.name = Null THEN table
    ELSE IF \E r \in table : r.licence = data.licence
    THEN LET old == CHOOSE r \in table : r.licence = data.licence
         IN  (table \ {old}) \cup {MergePlayer(old, data)}
    ELSE table \cup {data}

\* insert_player(player)
InsertPlayer ==
    \E player \in PlayerDicts :
        /\ players' = UpsertPlayer(players, PlayerData(player))
        /\ lastPlayer' = player
        /\ UNCHANGED notPlayer

NextPlayers == InsertPlayer

SpecPlayers == Init /\ [][NextPlayers]_vars

----------------------------------------------------------------------------
(* The ranking crawl over the spaces a caller can ask for: any week list,   *)
(* any division filter, any resume coordinate.  Jobs run one after the      *)
(* other and every page shows one row.                                      *)

\* the remote target shows a one-row table for every division and week
CrawlAttemptOneRow(j) ==
    /\ Attempt(j, TRUE, 1, 0)
    /\ UNCHANGED plan

\* a start request with any parameters, made when no driver is alive
StartAnySpace ==
    /\ \A j \in Jobs : pc[j] \in {"idle", "done"}
    /\ \E wl \in WeekLists : \E df \in DivisionFilters : \E rf \in {None} \cup Items :
          StartInterclubsScrape(wl, df, rf)

NextSpaces ==
    \/ StartAnySpace
    \/ CancelInterclubsScrape
    \/ \E j \in Jobs : DriverBegin(j)
    \/ \E j \in Jobs : DriverFinish(j)
    \/ \E j \in Jobs : DriverFail(j)
    \/ \E j \in Jobs : CrawlSetup(j)
    \/ \E j \in Jobs : CrawlCheck(j)
    \/ \E j \in Jobs : CrawlAttemptOneRow(j)

SpecSpaces == Init /\ [][NextSpaces]_vars

----------------------------------------------------------------------------
(* The three families in one process.  The request handlers, the ranking    *)
(* driver and the tournament coroutine are code of the event loop and run   *)
(* when no roster fetch holds it; the ranking crawl is in its own thread.   *)
(* The answer of a request is kept in reply until the client has read it,   *)
(* which it does before anything else happens.  Each family is followed     *)
(* through its first job, two families at a time.                           *)

\* the families a job of which has been accepted
Started ==
    {f \in Families :
        \/ f = "ranking" /\ pc[1] # "idle"
        \/ f = "roster" /\ tasks # <<>>
        \/ f = "tournament" /\ trun[1].tpc # "idle"}

\* the handler of request op of family f, answering code
HandlerAnswers(f, op, code) ==
    CASE f = "ranking" /\ op = "start" ->
            StartInterclubsScrapeAnswers(OneWeek, AllDivisions, None, code)
      [] f = "ranking" /\ op = "cancel" -> CancelInterclubsScrapeAnswers(code)
      [] f = "roster" /\ op = "start" -> StartFullScrapeAnswers(code)
      [] f = "roster" /\ op = "cancel" -> CancelScrapeAnswers(code)
      [] f = "tournament" /\ op = "start" -> StartTournamentScrapeAnswers(code)
      [] f = "tournament" /\ op = "cancel" -> CancelTournamentScrapeAnswers(code)

\* a start request is made for the first job of the family, or while the
\* family has a job running
MayStart(f) ==
    /\ Cardinality(Started \ {f}) <= 1
    /\ CASE f = "ranking" -> cur.status = "running" \/ pc[1] = "idle"
         [] f = "roster" -> GetCurrentScrapeTask(tasks) # 0 \/ tasks = <<>>
         [] f = "tournament" -> tcur.status = "running" \/ trun[1].tpc = "idle"

\* a handler runs, when the event loop is free, for a client that is waiting
\* for its answer
Request(f, op) ==
    /\ reply = NoReply
    /\ loop = 0
    /\ op = "start" => MayStart(f)
    /\ \E code \in Codes :
          /\ HandlerAnswers(f, op, code)
          /\ reply' = Reply(f, op, code)

\* the client has the answer
AnswerRead ==
    /\ reply # NoReply
    /\ reply' = NoReply
    /\ UNCHANGED state

\* a step of the ranking driver or of the tournament coroutine
LoopStep(j) ==
    /\ reply = NoReply /\ loop = 0
    /\ \/ DriverBegin(j)
       \/ DriverFinish(j)
       \/ DriverFail(j)
       \/ TournamentBegin(j)
       \/ TournamentInscriptions(j)
       \/ TournamentResults(j)
       \/ TournamentNext(j)

\* a step of the ranking crawl in its thread
ThreadStep(j) ==
    /\ reply = NoReply
    /\ \/ CrawlSetup(j)
       \/ CrawlCheck(j)
       \/ CrawlAttemptOneRow(j)

\* a step of the roster coroutine
RosterLoopStep(t) ==
    /\ reply = NoReply
    /\ RosterStep(t)

NextFamilies ==
    \/ \E f \in Families : Request(f, "start")
    \/ \E f \in Families : Request(f, "cancel")
    \/ AnswerRead
    \/ \E j \in Jobs : LoopStep(j)
    \/ \E j \in Jobs : ThreadStep(j)
    \/ \E t \in Jobs : RosterLoopStep(t)

SpecFamilies == Init /\ [][NextFamilies]_vars

----------------------------------------------------------------------------
(* Table scrape_tasks on its own (src/src/database/queries.py):             *)
(* create_scrape_task, update_scrape_task and get_scrape_task_history       *)
(* called in any order while the clock of the store advances.               *)
(* CURRENT_TIMESTAMP has a resolution of one second, so two calls can see   *)
(* the same time.                                                           *)

\* rows the table can hold
MaxTasks == 2

\* the updates the callers make: progress, success with the counters,
\* cancelled and failed with the status alone
Updates ==
    { [NoUpdate EXCEPT !.completed_clubs = 1, !.current_club = 1],
      [NoUpdate EXCEPT !.status = "success", !.completed_clubs = 1, !.errors_count = 1],
      [NoUpdate EXCEPT !.status = "cancelled"],
      [NoUpdate EXCEPT !.status = "failed"] }

\* one second passes
Tick ==
    /\ now < MaxClock
    /\ now' = now + 1
    /\ UNCHANGED << rankingVars, rosterVars, tournamentVars, logVars, playerVars, engineVars,
                    lastUpdate, history, reply >>

\* create_scrape_task(total_clubs)
CreateScrapeTask ==
    /\ Len(tasks) < MaxTasks
    /\ tasks' = Append(tasks, NewTask(Len(AllClubs)))
    /\ UNCHANGED << rankingVars, run, loop, tournamentVars, logVars, playerVars, engineVars,
                    taskVars, reply >>

\* update_scrape_task(task_id, ...)
UpdateTask ==
    \E task_id \in 1..Len(tasks), u \in Updates :
        /\ tasks' = UpdateScrapeTask(tasks, task_id, u)
        /\ lastUpdate' = [ turn |-> IF lastUpdate.turn = 1 THEN 2 ELSE 1,
                           task_id |-> task_id, u |-> u ]
        /\ UNCHANGED << rankingVars, run, loop, tournamentVars, logVars, playerVars, engineVars,
                        now, history, reply >>

NextTasks == Tick \/ CreateScrapeTask \/ UpdateTask

SpecTasks == Init /\ [][NextTasks]_vars

\* the values of the parameter limit
Limits == 1..MaxTasks

\* the orders in which a scan can meet the rows of a table of n rows: the
\* query fixes no order among rows of equal started_at
Scans(n) == { p \in [1..n -> 1..n] : \A i, j \in 1..n : i # j => p[i] # p[j] }

\* the sorter puts row id behind the rows that start no earlier than it
RECURSIVE PlaceByStart(_, _, _)
PlaceByStart(sorted, id, rows) ==
    IF sorted = << >> THEN << id >>
    ELSE IF rows[Head(sorted)].started_at >= rows[id].started_at
         THEN << Head(sorted) >> \o PlaceByStart(Tail(sorted), id, rows)
         ELSE << id >> \o sorted

\* ORDER BY started_at DESC over the first k rows of the scan
RECURSIVE OrderByStartDesc(_, _, _)
OrderByStartDesc(rows, scan, k) ==
    IF k = 0 THEN << >>
    ELSE PlaceByStart(OrderByStartDesc(rows, scan, k - 1), scan[k], rows)

\* the same query without its LIMIT
GetScrapeTaskHistoryUnlimited(rows, limit, scan) ==
    OrderByStartDesc(rows, scan, Len(rows))

\* get_scrape_task_history(limit): the ids of the rows it returns, in order
GetScrapeTaskHistory(rows, limit, scan) ==
    LET ordered == OrderByStartDesc(rows, scan, Len(rows)) IN
    IF Len(ordered) <= limit THEN ordered ELSE SubSeq(ordered, 1, limit)

\* GET /history
GetScrapeHistory ==
    \E limit \in Limits, scan \in Scans(Len(tasks)) :
        /\ history' = [ turn |-> IF history.turn = 1 THEN 2 ELSE 1,
                        limit |-> limit,
                        ids |-> GetScrapeTaskHistory(tasks, limit, scan) ]
        /\ UNCHANGED << rankingVars, rosterVars, tournamentVars, logVars, playerVars, engineVars,
                        now, lastUpdate, reply >>

NextHistory == Tick \/ CreateScrapeTask \/ GetScrapeHistory

SpecHistory == Init /\ [][NextHistory]_vars

----------------------------------------------------------------------------
(* The retried operations on their own: the retry loop of a ranking work    *)
(* item with the pacing of the crawl (scrape_all_interclubs_rankings), and  *)
(* the page fetches fetch_player_page and fetch_club_members_page.  Waits   *)
(* are in milliseconds.                                                     *)

\* work items the crawl goes through
RetryItems == 5

\* BASE_DELAY = 2.0 and PAGE_DELAY = 0.5, in milliseconds
BASE_DELAY == 2000
PAGE_DELAY == 500
\* the default of the parameter max_retries of the two page fetches
max_retries == 3

Pages == {"player", "members"}

\* "wait = BASE_DELAY * (2 ** (retries - 1))" with a doubled base
RetryWaitFromBase(retries) == 2 * BASE_DELAY * 2^(retries - 1)

\* "wait = BASE_DELAY * (2 ** (retries - 1))", retries counted after the failure
RetryWait(retries) == BASE_DELAY * 2^(retries - 1)

\* "delay = 2 ** attempt" seconds, attempt counted from 0
PageRetryWait(attempt) == 1000 * 2^attempt

\* the crawl has loaded the start page and enters its loop, or a caller
\* calls one of the page fetches
BeginRetried ==
    /\ retried.pc = "idle"
    /\ \E kind \in {"item"} \cup Pages :
          retried' = [NoOp EXCEPT !.kind = kind, !.pc = "attempt", !.item = 1]
    /\ UNCHANGED << ploop, keyed, notEngine >>

\* the crawl moves to the next work item of the loop
NextItem(o, prev, paced) ==
    [ o EXCEPT !.item = @ + 1, !.failed = 0, !.waits = << >>,
               !.prev = prev, !.paced = paced,
               !.pc = IF o.item = RetryItems THEN "done" ELSE "attempt" ]

\* one pass of "while retries < MAX_RETRIES and not success": navigation,
\* parse and save, then the pause; or the except with its wait and its reload
\* of the start page, whose failure is logged and passed over
ItemAttempt ==
    /\ retried.kind = "item" /\ retried.pc = "attempt"
    /\ \E ok \in BOOLEAN, reloaded \in BOOLEAN :
         retried' =
            IF ok
            THEN NextItem([retried EXCEPT !.session = "loaded"], "success", PAGE_DELAY)
            ELSE IF retried.failed + 1 < MAX_RETRIES
            THEN [ retried EXCEPT !.failed = @ + 1,
                             !.waits = Append(@, RetryWait(retried.failed + 1)),
                             !.session = IF reloaded THEN "loaded" ELSE "indeterminate" ]
            ELSE NextItem([retried EXCEPT !.session = "indeterminate", !.errors = @ + 1],
                          "error", 0)
    /\ UNCHANGED << ploop, keyed, notEngine >>

\* one pass of "for attempt in range(max_retries)" of a page fetch: the wait
\* if it is not the first pass, then the request
PageAttempt ==
    /\ retried.kind \in Pages /\ retried.pc = "attempt"
    /\ LET attempt == retried.failed
           waited == IF attempt > 0
                     THEN Append(retried.waits, PageRetryWait(attempt))
                     ELSE retried.waits IN
       \E ok \in BOOLEAN :
         retried' =
            IF ok THEN [ retried EXCEPT !.waits = waited, !.pc = "returned" ]
            ELSE [ retried EXCEPT !.waits = waited, !.failed = @ + 1,
                             !.pc = IF attempt + 1 < max_retries
                                    THEN "attempt" ELSE "raised" ]
    /\ UNCHANGED << ploop, keyed, notEngine >>

NextRetry == BeginRetried \/ ItemAttempt \/ PageAttempt

SpecRetry == Init /\ [][NextRetry]_vars

----------------------------------------------------------------------------
(* The roster family across restarts of the process.  Table scrape_tasks    *)
(* is on disk and outlives the process; the coroutines and the event loop   *)
(* do not.  Start-up of src/src/api/app.py runs init_database(), which      *)
(* creates the tables that are missing and writes no row.                   *)

\* cancel_running_tasks: UPDATE scrape_tasks SET status = 'cancelled',
\* finished_at = CURRENT_TIMESTAMP WHERE status = 'running'
CancelRunningTasks(rows) ==
    [ t \in 1..Len(rows) |->
        IF rows[t].status = "running"
        THEN [ rows[t] EXCEPT !.status = "cancelled", !.finished_at = now ]
        ELSE rows[t] ]

\* the process ends, with whatever its coroutines were doing, and the
\* application is started again
Restart ==
    /\ run' = [t \in Jobs |-> NoRun]
    /\ loop' = 0
    /\ tasks' = tasks
    /\ UNCHANGED notRoster

NextRestart == NextRoster \/ Restart

SpecRestart == Init /\ [][NextRestart]_vars

----------------------------------------------------------------------------
(* The player loop of one club in run_full_scrape, on its own: the pages of *)
(* the players of the club are fetched one after the other, and the row of  *)
(* the job is read for a cancellation when the count of pages fetched with  *)
(* success is a positive multiple of 10.  cancel_scrape can run at every    *)
(* await of the loop.                                                       *)

\* players of the club
ClubPlayers == 12

\* "if players_scraped % 10 == 0 and players_scraped > 0"
CheckEvery == 10

\* the base records are saved and the loop over all_players begins
EnterPlayerLoop ==
    /\ ploop.pc = "idle"
    /\ ploop' = [ploop EXCEPT !.pc = "loop"]
    /\ UNCHANGED << retried, keyed, notEngine >>

\* POST /scrape/cancel is accepted while the job is in the loop
CancelInPlayerLoop ==
    /\ ploop.pc = "loop"
    /\ ~ploop.cancelled
    /\ ploop' = [ploop EXCEPT !.cancelled = TRUE]
    /\ UNCHANGED << retried, keyed, notEngine >>

\* one pass of "for licence, player_data in all_players.items()": the end of
\* the loop, the check, then get_player_info and the saves, which succeed
\* (players_scraped += 1) or raise (the except of the player)
PlayerPass ==
    /\ ploop.pc = "loop"
    /\ IF ploop.visited = ClubPlayers
       THEN ploop' = [ploop EXCEPT !.pc = "ended"]
       ELSE IF /\ ploop.players_scraped % CheckEvery = 0
               /\ ploop.players_scraped > 0
               /\ ploop.cancelled
       THEN ploop' = [ploop EXCEPT !.pc = "returned"]
       ELSE \E ok \in BOOLEAN :
               ploop' = [ploop EXCEPT
                   !.visited = @ + 1,
                   !.players_scraped = IF ok THEN @ + 1 ELSE @,
                   !.since = IF ploop.cancelled THEN @ + 1 ELSE @ ]
    /\ UNCHANGED << retried, keyed, notEngine >>

NextPlayerLoop == EnterPlayerLoop \/ CancelInPlayerLoop \/ PlayerPass

SpecPlayerLoop == Init /\ [][NextPlayerLoop]_vars

----------------------------------------------------------------------------
(* The ranking family's jobs and log buffers by task id.  The start handler *)
(* names the job after the second of the clock; the driver's first step     *)
(* creates the buffer of that name and the record; add_log appends to the   *)
(* buffer of the job's name.  The tournament family has the same code.      *)

\* jobs started
MaxKeyedJobs == 2
\* messages a job logs
KeyedLogs == 2

\* f"interclubs_{datetime.now().strftime('%Y%m%d_%H%M%S')}"
TaskIdAt(clock) == clock

\* POST /scrape/interclubs answered "started": the guard reads the record
StartKeyed ==
    /\ Len(keyed.jobs) < MaxKeyedJobs
    /\ keyed.status # "running"
    /\ keyed' = [keyed EXCEPT !.jobs =
           Append(@, [task_id |-> TaskIdAt(now), pc |-> "created", logged |-> 0])]
    /\ UNCHANGED << retried, ploop, notEngine >>

\* the first step of run_interclubs_scrape: the buffer, then the record
BeginKeyed(j) ==
    /\ keyed.jobs[j].pc = "created"
    /\ keyed' = [keyed EXCEPT
           !.jobs[j].pc = "running",
           !.keys = @ \cup {keyed.jobs[j].task_id},
           !.logs[keyed.jobs[j].task_id] = << >>,
           !.status = "running"]
    /\ UNCHANGED << retried, ploop, notEngine >>

\* add_log of job j
LogKeyed(j) ==
    /\ keyed.jobs[j].pc = "running"
    /\ keyed.jobs[j].logged < KeyedLogs
    /\ keyed' = [keyed EXCEPT
           !.jobs[j].logged = @ + 1,
           !.logs[keyed.jobs[j].task_id] =
               AddLog(@, << j, keyed.jobs[j].logged + 1 >>, LogCap["ranking"])]
    /\ UNCHANGED << retried, ploop, notEngine >>

\* the job ends: the status of the record becomes 'success', or 'failed' in
\* the except of the driver
EndKeyed(j) ==
    /\ keyed.jobs[j].pc = "running"
    /\ \E status \in {"success", "failed"} :
          keyed' = [keyed EXCEPT !.jobs[j].pc = "done", !.status = status]
    /\ UNCHANGED << retried, ploop, notEngine >>

NextTaskIds ==
    \/ Tick
    \/ StartKeyed
    \/ \E j \in 1..MaxKeyedJobs :
          /\ j <= Len(keyed.jobs)
          /\ BeginKeyed(j) \/ LogKeyed(j) \/ EndKeyed(j)

SpecTaskIds == Init /\ [][NextTaskIds]_vars

----------------------------------------------------------------------------
(* Claims *)

\* C1: single flight of the ranking family. The accepted jobs that have not
\* reached a terminal status - a job whose task is created but has not yet
\* recorded 'running', or the job recorded as 'running' - are never more
\* than one: of two start requests with no job finishing in between, one is
\* refused.
C1_SingleFlight ==
    Cardinality({j \in Jobs : pc[j] = "scheduled"})
        + (IF cur.status = "running" THEN 1 ELSE 0) <= 1

\* C2: terminal statuses are absorbing. Once the status of a job's record is
\* success, failed or cancelled, no step changes the status of that record.
C2_TerminalAbsorbing ==
    [][ (cur.status \in Terminal /\ cur'.owner = cur.owner)
            => cur'.status = cur.status ]_vars

\* C3: at no time are two crawls of the ranking family processing work items.
C3_OneCrawlAtATime ==
    Cardinality({j \in Jobs : crawl[j].cpc = "attempt"}) <= 1

\* C4: once the cancel of a job is accepted, its crawl starts no further work
\* item: from the head of the loop it never enters the retry loop again.
C4_NoNewItemAfterCancel ==
    [][ \A j \in Jobs :
            (j \in cancelled /\ crawl[j].cpc = "check")
                => crawl'[j].cpc # "attempt" ]_vars

\* C5: while a job's status reads 'cancelled', that job's crawl makes no
\* attempt (no fetch, no store write).
C5_CancelledMeansQuiet ==
    [][ cur.status = "cancelled"
            => ~(crawl[cur.owner].cpc = "attempt"
                    /\ crawl'[cur.owner] # crawl[cur.owner]) ]_vars

\* C6: the completion path and the failure path of job j write only the
\* record that was created for job j.
C6_OwnRecordOnly ==
    [][ \A j \in Jobs :
            (pc[j] = "awaiting" /\ pc'[j] = "done") => cur.owner = j ]_vars

\* --- what a run over the space is expected to leave, from the fetch plans ---

Max(S) == CHOOSE x \in S : \A y \in S : y <= x

RECURSIVE SumOver(_, _)
SumOver(S, f) ==
    IF S = {} THEN 0
    ELSE LET x == CHOOSE y \in S : TRUE IN f[x] + SumOver(S \ {x}, f)

\* position of the resume coordinate in the space of job j (past the end
\* when the coordinate is not in the space), 1 when there is none
FirstIdx(j) ==
    IF args[j].resume_from = None THEN 1
    ELSE IF \E k \in 1..Len(Space(j)) : Space(j)[k] = args[j].resume_from
    THEN CHOOSE k \in 1..Len(Space(j)) :
            /\ Space(j)[k] = args[j].resume_from
            /\ \A m \in 1..(k - 1) : Space(j)[m] # args[j].resume_from
    ELSE Len(Space(j)) + 1

\* positions whose work item has ended (success or retries exhausted) in job j
EndedIdx(j) == FirstIdx(j)..(crawl[j].idx - 1)

SucceededIdx(j) ==
    {k \in EndedIdx(j) : plan[Space(j)[k]].fails < MAX_RETRIES}

\* the coordinates among positions lo..hi whose every attempt fails, in order
RECURSIVE ExhaustedItems(_, _, _)
ExhaustedItems(j, lo, hi) ==
    IF lo > hi THEN <<>>
    ELSE (IF plan[Space(j)[lo]].fails >= MAX_RETRIES
          THEN << Space(j)[lo] >> ELSE <<>>)
         \o ExhaustedItems(j, lo + 1, hi)

\* the store after one uninterrupted pass over positions k.. of the space
RECURSIVE FullRunFrom(_, _, _)
FullRunFrom(table, space, k) ==
    IF k > Len(space) THEN table
    ELSE FullRunFrom(
            IF plan[space[k]].fails < MAX_RETRIES
            THEN InsertBatch(table, ParsedRankings(space[k], plan[space[k]].recs))
            ELSE table,
            space, k + 1)

RanToEnd(j) ==
    /\ crawl[j].cpc = "returned"
    /\ crawl[j].idx > Len(Space(j))

\* C7: idempotent resume. With a fixed fetch outcome per work item, when
\* every run after the first is started with resume_from set to the
\* last_success reported by the run before it (stopped by a cancel after any
\* number of work items), then once a run has gone through the space the
\* store holds exactly the rows of one uninterrupted run over the space:
\* every work item was attempted, every row is there once, none is missing.
C7_IdempotentResume ==
    \A j \in Jobs :
        RanToEnd(j)
            => /\ \A k \in 1..Len(Space(j)) : plan[Space(j)[k]] # Undecided
               /\ store = FullRunFrom(EmptyBag, Space(j), 1)

\* a run resumed from (0,2) and completed, where the first run reported
\* last_success (0,2) although (1,1) has rows to give: it was cancelled
\* after two work items
C7_Witness ==
    /\ RanToEnd(2)
    /\ args[2].resume_from = << 0, 2 >>
    /\ plan[<< 1, 1 >>].fails < MAX_RETRIES
    /\ plan[<< 1, 1 >>].recs > 0
    /\ plan[<< 0, 2 >>].recs > 0

\* C8: retry exhaustion isolation. A run over the whole space in which every
\* attempt of every work item fails ends with one error entry per work item,
\* no record counted or stored; and a job whose driver has ended is not
\* left 'running'.
C8_ExhaustionIsolation ==
    \A j \in Jobs :
        /\ ( /\ RanToEnd(j)
             /\ args[j].resume_from = None
             /\ \A k \in 1..Len(Space(j)) : plan[Space(j)[k]].fails >= MAX_RETRIES )
           => /\ crawl[j].errors = Space(j)
              /\ crawl[j].total_rankings = 0
              /\ store = EmptyBag
        /\ (pc[j] = "done" /\ cur.owner = j) => cur.status \in Terminal

\* the run that failed every work item has ended, its driver is about to
\* record the result
C8_Witness ==
    /\ RanToEnd(1)
    /\ args[1].resume_from = None
    /\ \A k \in 1..Len(Space(1)) : plan[Space(1)[k]].fails >= MAX_RETRIES
    /\ Len(crawl[1].errors) = 4
    /\ cur.status = "running"

\* C9: the run's statistics. At every work-item boundary and at the end of a
\* run, total_rankings is the sum of the record counts of the work items that
\* succeeded, errors holds one entry per work item that failed all its
\* attempts, in visiting order, and last_success is the last work item that
\* succeeded.
C9_RunStatistics ==
    \A j \in Jobs :
        crawl[j].cpc \in {"check", "attempt", "returned"} =>
            /\ crawl[j].total_rankings =
                  SumOver(SucceededIdx(j),
                          [k \in SucceededIdx(j) |-> plan[Space(j)[k]].recs])
            /\ crawl[j].errors = ExhaustedItems(j, FirstIdx(j), crawl[j].idx - 1)
            /\ crawl[j].last_success =
                  IF SucceededIdx(j) = {} THEN None
                  ELSE Space(j)[Max(SucceededIdx(j))]

\* the 4-item example: 2 records for (0,1), 0 for (0,2), two failures then
\* 1 record for (1,1), three failures for (1,2)
C9_Witness ==
    /\ RanToEnd(1)
    /\ args[1].resume_from = None
    /\ plan[<< 0, 1 >>] = [fails |-> 0, recs |-> 2]
    /\ plan[<< 0, 2 >>] = [fails |-> 0, recs |-> 0]
    /\ plan[<< 1, 1 >>] = [fails |-> 2, recs |-> 1]
    /\ plan[<< 1, 2 >>] = [fails |-> 3, recs |-> 0]
    /\ crawl[1].total_rankings = 3
    /\ crawl[1].errors = << << 1, 2 >> >>
    /\ crawl[1].last_success = << 1, 1 >>

\* C10: upsert merge policy of ranking rows. An upsert over an existing row
\* with the same natural key keeps the stored rank and points where the new
\* row carries null, and stores the new value where it carries one.
C10_UpsertMergePolicy ==
    [][ \A i \in 1..Len(lastUpsert') :
          \A old \in BagToSet(store) :
            SameKey(old, lastUpsert'[i]) =>
               \E new \in BagToSet(store') :
                  /\ SameKey(new, old)
                  /\ new.points = (IF lastUpsert'[i].points = Null
                                   THEN old.points ELSE lastUpsert'[i].points)
                  /\ new.rank = (IF lastUpsert'[i].rank = Null
                                 THEN old.rank ELSE lastUpsert'[i].rank) ]_vars

\* C11: re-ingestion is idempotent. Whatever tournament jobs have run over
\* the unchanged remote data, the store holds no row twice: the rows are
\* those of a single run.
C11_ReingestIdempotent ==
    \A r \in BagToSet(tstore) : CopiesIn(r, tstore) = 1

\* C12: the records of one ranking work item are persisted all-or-nothing.
\* On a store whose statements can raise, every attempt either commits the
\* whole batch of the work item and moves on, or leaves the store as it was,
\* counts as a failed attempt (the work item is retried while attempts
\* remain) and leaves last_success and the record count alone.
C12_BatchAllOrNothing ==
    [][ \A j \in Jobs :
          (crawl[j].cpc = "attempt" /\ crawl'[j] # crawl[j]) =>
             LET item == Space(j)[crawl[j].idx] IN
             \/ /\ store' = InsertBatch(store, ParsedRankings(item, PageRows))
                /\ crawl'[j].last_success = item
                /\ crawl'[j].idx = crawl[j].idx + 1
             \/ /\ store' = store
                /\ crawl'[j].last_success = crawl[j].last_success
                /\ crawl'[j].total_rankings = crawl[j].total_rankings
                /\ crawl'[j].retries = crawl[j].retries + 1
                /\ (crawl[j].retries + 1 < MAX_RETRIES
                        => /\ crawl'[j].cpc = "attempt"
                           /\ crawl'[j].idx = crawl[j].idx) ]_vars

\* the batch of (0,1) is committed; the batch of (1,1) has failed twice and
\* is about to be tried a third time: none of its rows is in the store and
\* last_success still names (0,1)
C12_Witness ==
    /\ crawl[1].cpc = "attempt"
    /\ crawl[1].idx = 2
    /\ crawl[1].retries = 2
    /\ crawl[1].last_success = << 0, 1 >>
    /\ store = InsertBatch(EmptyBag, ParsedRankings(<< 0, 1 >>, PageRows))

\* C13: a ranking job whose crawl could not load the division catalog (the
\* start page raised, or the catalog came back empty) ends with status
\* 'failed'.
C13_NoCatalogMeansFailed ==
    [][ \A j \in Jobs :
          (pc[j] = "awaiting" /\ pc'[j] = "done" /\ crawl[j].total_divisions = 0)
             => cur'.status = "failed" ]_vars

\* C14: once a work item of the job on record has been committed, the job
\* record reports it as last_success.
C14_StatusReportsLastSuccess ==
    \A j \in Jobs :
        (cur.owner = j /\ crawl[j].last_success # None)
            => cur.last_success = crawl[j].last_success

RunningRows == {t \in 1..Len(tasks) : tasks[t].status = "running"}

\* C15: single flight of the roster family. After every step at most one row
\* of scrape_tasks is 'running', and no step taken while a row is 'running'
\* creates a row.
C15_RosterSingleFlight ==
    [][ /\ Cardinality(RunningRows') <= 1
        /\ (RunningRows # {} => Len(tasks') = Len(tasks)) ]_vars

\* the first job was cancelled and its coroutine has not ended yet; the job
\* started after it is the one running row
C15_Witness ==
    /\ Len(tasks) = 2
    /\ tasks[1].status = "cancelled"
    /\ tasks[2].status = "running"
    /\ run[1].rpc \in {"members", "ranking", "player", "paced", "club"}
    /\ run[2].rpc \in {"members", "ranking", "player", "paced", "club"}

\* C16: progress is monotone. No step lowers completed_tournaments of a job
\* record, and completed_tournaments never exceeds total_tournaments.
C16_ProgressMonotone ==
    [][ tcur'.owner = tcur.owner =>
          /\ tcur'.completed_tournaments >= tcur.completed_tournaments
          /\ tcur'.completed_tournaments <= tcur'.total_tournaments ]_vars

\* C17: current_club of a task, when set, names a club that is not among
\* the completed ones: its place in the list is past completed_clubs.
C17_CurrentUnitPending ==
    \A t \in 1..Len(tasks) :
        tasks[t].current_club # Null =>
            \E i \in 1..Len(AllClubs) :
                /\ AllClubs[i] = tasks[t].current_club
                /\ i > tasks[t].completed_clubs

Min(a, b) == IF a <= b THEN a ELSE b

C19_LoopFreeDuringFetch ==
    \A t \in Jobs : run[t].rpc \in {"members", "player"} => loop = 0

\* C20: every started job reaches a terminal status: a row of scrape_tasks
\* that is 'running' is eventually success, failed or cancelled.
C20_EveryJobEnds ==
    \A t \in Jobs :
        (t <= Len(tasks) /\ tasks[t].status = "running")
            ~> (t <= Len(tasks) /\ tasks[t].status \in Terminal)

\* does family f have a job whose status reads 'running'?
FamilyRunning(f) ==
    CASE f = "ranking" -> cur.status = "running"
      [] f = "roster" -> RunningRows # {}
      [] f = "tournament" -> tcur.status = "running"
      [] OTHER -> FALSE

\* C21: a cancel request made when the family has no job in status
\* 'running' is answered 404 and changes no job record (status, finish time
\* or any other field) of any family.
C21_CancelRefusedWhenIdle ==
    [][ (reply = NoReply /\ reply'.op = "cancel" /\ ~FamilyRunning(reply'.family))
            => /\ reply'.code = 404
               /\ << cur, tasks, tcur >>' = << cur, tasks, tcur >> ]_vars

\* the roster job has ended with success and a cancel request has just been
\* refused
C21_Witness ==
    /\ reply = Reply("roster", "cancel", 404)
    /\ Len(tasks) = 1
    /\ tasks[1].status = "success"
    /\ tasks[1].finished_at # Null

\* lexicographic order of (division_index, week)
LexLess(a, b) == a[1] < b[1] \/ (a[1] = b[1] /\ a[2] < b[2])

\* resume_from names a work item of the space of job j
ResumeInSpace(j) ==
    /\ args[j].resume_from # None
    /\ \E k \in 1..Len(Space(j)) : Space(j)[k] = args[j].resume_from

\* C22: when resume_from names a work item of the space, the head of the
\* loop skips every work item lexicographically earlier than resume_from
\* without an attempt or a store write, and lets every work item at or after
\* resume_from through to its attempts.
C22_ResumeSkipsEarlier ==
    [][ \A j \in Jobs :
          ( /\ crawl[j].cpc = "check"
            /\ crawl'[j] # crawl[j]
            /\ crawl[j].idx <= Len(Space(j))
            /\ ~IsCancelled
            /\ ResumeInSpace(j) )
          => IF LexLess(Space(j)[crawl[j].idx], args[j].resume_from)
             THEN /\ crawl'[j].cpc = "check"
                  /\ crawl'[j].idx = crawl[j].idx + 1
                  /\ store' = store
             ELSE crawl'[j].cpc = "attempt" ]_vars

\* the product of the selected divisions and the weeks of job j
ProductOf(j) ==
    { << d, w >> :
        d \in {Catalog[i] : i \in {k \in 1..Len(Catalog) :
                    args[j].division_indices = AllDivisions
                        \/ Catalog[k] \in args[j].division_indices}},
        w \in {args[j].weeks[i] : i \in 1..Len(args[j].weeks)} }

\* C23: for any weeks list and division filter the crawl takes up the work
\* items in strictly increasing lexicographic order, and a run over the whole
\* space that was not cancelled has visited every work item of the product
\* exactly once (every page shows one row, so it has counted one record per
\* work item).
C23_LexicographicOnce ==
    [][ \A j \in Jobs :
          /\ (crawl[j].cpc = "check" /\ crawl'[j].cpc = "attempt")
                => \/ crawl[j].last_success = None
                   \/ LexLess(crawl[j].last_success, Space(j)[crawl[j].idx])
          /\ (RanToEnd(j) /\ args[j].resume_from = None)
                => crawl[j].total_rankings = Cardinality(ProductOf(j)) ]_vars

\* C24: upserting a player record over a stored row leaves every field the
\* record does not populate (key absent, or None) as it was stored.
C24_UnpopulatedFieldKept ==
    [][ \A old \in players :
          old.licence = lastPlayer'.licence =>
             \E new \in players' :
                /\ new.licence = old.licence
                /\ \A key \in {"name", "points_start", "points_current", "total_wins"} :
                      lastPlayer'[key] \in {Absent, Null} => new[key] = old[key] ]_vars

\* the step is a call update_scrape_task(task_id, u) on the store alone
UpdateCalled(task_id, u) ==
    /\ lastUpdate'.turn # lastUpdate.turn
    /\ lastUpdate'.task_id = task_id
    /\ lastUpdate'.u = u

\* C25: a terminal update records its status and a finish time, and the same
\* terminal update applied a second time leaves the row of the job (status,
\* counters and finish time) as the first application left it.
C25_TerminalUpdateIdempotent ==
    [][ \A task_id \in 1..Len(tasks), u \in Updates :
          (UpdateCalled(task_id, u) /\ u.status \in Terminal) =>
              /\ tasks'[task_id].status = u.status
              /\ tasks'[task_id].finished_at # Null
              /\ (lastUpdate.task_id = task_id /\ lastUpdate.u = u) =>
                     tasks'[task_id] = tasks[task_id] ]_vars

\* the error counter the status read of a family reports for its running job
ErrorsReported(f) ==
    CASE f = "ranking" -> cur.errors_count
      [] f = "roster" -> tasks[GetCurrentScrapeTask(tasks)].errors_count
      [] f = "tournament" -> tcur.errors

\* the work items of the running job that have ended in error so far
ErrorsSoFar(f) ==
    CASE f = "ranking" ->
            IF cur.owner \in Jobs
            THEN Len(SelectSeq(crawl[cur.owner].errors, LAMBDA e : e \in Items))
            ELSE 0
      [] f = "roster" -> run[GetCurrentScrapeTask(tasks)].errors
      [] f = "tournament" -> tcur.errors

\* the job the status read of a family reports
JobOf(f) ==
    CASE f = "ranking" -> cur.owner
      [] f = "roster" -> GetCurrentScrapeTask(tasks)
      [] f = "tournament" -> tcur.owner

\* C26: while a job is running, the error counter its status reports never
\* decreases and equals the number of work items that have ended in error
\* so far.
C26_ErrorCounterFollows ==
    [][ \A f \in Families :
          FamilyRunning(f)' =>
              /\ ErrorsReported(f)' = ErrorsSoFar(f)'
              /\ (FamilyRunning(f) /\ JobOf(f)' = JobOf(f)) =>
                     ErrorsReported(f)' >= ErrorsReported(f) ]_vars

\* the status read of family f reports a job that has just been created:
\* running, nothing completed, no error, no finish time, and the job is the
\* one the accepted start request made
ReportsNewJob(f) ==
    CASE f = "ranking" ->
            /\ cur.status = "running"
            /\ cur.total_rankings = 0 /\ cur.errors_count = 0
            /\ ~cur.finished_at
            /\ cur.owner \in Jobs /\ pc[cur.owner] = "scheduled"
      [] f = "roster" ->
            /\ GetCurrentScrapeTask(tasks) = Len(tasks)
            /\ tasks # << >>
            /\ tasks[Len(tasks)].status = "running"
            /\ tasks[Len(tasks)].completed_clubs = 0
            /\ tasks[Len(tasks)].errors_count = 0
            /\ tasks[Len(tasks)].finished_at = Null
            /\ run[Len(tasks)].rpc = "scheduled"
      [] f = "tournament" ->
            /\ tcur.status = "running"
            /\ tcur.completed_tournaments = 0 /\ tcur.errors = 0
            /\ ~tcur.finished_at
            /\ tcur.owner \in Jobs /\ trun[tcur.owner].tpc = "scheduled"

\* C27: a job created while its family has no running job is 'running' with
\* zero completed units, zero errors and no finish time, and once the start
\* request has returned it is the job the status read of the family reports.
C27_CreatedJobIsCurrent ==
    \A f \in Families : reply = Reply(f, "start", 200) => ReportsNewJob(f)

----------------------------------------------------------------------------
(* The three families in one process, their jobs logging as they run.       *)

\* messages a job logs in the run of the three families
LogsPerJob == 1

\* the running job of family f logs a message through its add_log
JobLogs(f) ==
    /\ reply = NoReply
    /\ FamilyRunning(f)
    /\ Len(appended[f]) < LogsPerJob
    /\ LogMessage(f)

NextFamiliesLog ==
    \/ NextFamilies
    \/ \E f \in Families : JobLogs(f)

SpecFamiliesLog == Init /\ [][NextFamiliesLog]_vars

\* what the status and log reads of family f return
View(f) ==
    CASE f = "ranking" -> << cur, logs[f] >>
      [] f = "roster" -> << tasks, logs[f] >>
      [] f = "tournament" -> << tcur, logs[f] >>

\* where the tasks of family f are in their code
Position(f) ==
    CASE f = "ranking" -> << pc, crawl >>
      [] f = "roster" -> run
      [] f = "tournament" -> trun

\* the step is a request of family f, or a step or a log message of its job
StepOf(f) ==
    \/ reply = NoReply /\ reply'.family = f
    \/ Position(f)' # Position(f)
    \/ appended[f]' # appended[f]

\* C29: a start request of a family is refused exactly when that family has
\* a job running, whatever the other families run, and a start, a cancel or
\* a step of the job of one family leaves status, counters and logs of the
\* other families as they were.
C29_FamiliesIndependent ==
    [][ \A f \in Families :
          /\ (reply = NoReply /\ reply'.family = f /\ reply'.op = "start") =>
                 (reply'.code = 409 <=> FamilyRunning(f))
          /\ StepOf(f) => \A g \in Families \ {f} : View(g)' = View(g) ]_vars

\* a tournament start accepted while a ranking job is running and has logged
C29_Witness ==
    /\ reply = Reply("tournament", "start", 200)
    /\ cur.status = "running"
    /\ logs["ranking"] # << >>

----------------------------------------------------------------------------
(* The ranking family as src/src/api/app.py serves it.  Its handlers and    *)
(* its driver are those of the router, but for the call of the crawl:       *)
(* run_interclubs_scrape passes callback, weeks, division_indices and       *)
(* resume_from and no is_cancelled, so the crawl runs with is_cancelled     *)
(* = None.                                                                  *)

\* head of one loop iteration with is_cancelled = None:
\* "if is_cancelled and is_cancelled()" is false whatever the record says
CrawlCheckNoCallback(j) ==
    /\ crawl[j].cpc = "check"
    /\ crawl' = [crawl EXCEPT ![j] =
         IF crawl[j].idx > Len(Space(j)) THEN [@ EXCEPT !.cpc = "returned"]
         ELSE IF crawl[j].skipping /\ ~ResumeHere(Space(j)[crawl[j].idx], args[j].resume_from)
              THEN [@ EXCEPT !.idx = @ + 1]
         ELSE [@ EXCEPT !.cpc = "attempt", !.skipping = FALSE, !.retries = 0] ]
    /\ UNCHANGED << cur, pc, args, store, plan, cancelled, lastUpsert, notRanking >>

NextServed ==
    \/ \E rf \in {None, cur.last_success} : StartInterclubsScrape(OneWeek, AllDivisions, rf)
    \/ CancelInterclubsScrape
    \/ \E j \in Jobs : DriverBegin(j)
    \/ \E j \in Jobs : DriverFinish(j)
    \/ \E j \in Jobs : DriverFail(j)
    \/ \E j \in Jobs : CrawlSetup(j)
    \/ \E j \in Jobs : CrawlCheckNoCallback(j)
    \/ \E j \in Jobs : CrawlAttempt(j)

SpecServed == Init /\ [][NextServed]_vars

\* C30: in the served application, once a cancel of the running ranking job
\* is accepted, the crawl of that job leaves its next check of the loop by
\* returning, without starting a work item, and the status of the job stays
\* 'cancelled'.
C30_ServedCancelStopsCrawl ==
    [][ \A j \in Jobs :
          (j \in cancelled /\ cur.owner = j /\ cur.status = "cancelled") =>
              /\ (crawl[j].cpc = "check" /\ crawl'[j] # crawl[j]) =>
                     crawl'[j].cpc = "returned"
              /\ cur'.owner = j => cur'.status = "cancelled" ]_vars

\* C31: every retry of a ranking work item starts on a session that a
\* completed reload of the start page has re-established.
C31_RetryOnReloadedSession ==
    (retried.kind = "item" /\ retried.pc = "attempt" /\ retried.failed > 0)
        => retried.session = "loaded"

\* C32: the first fetch of a work item comes after a pacing wait: the
\* steady-state delay when the work item before it succeeded, more than the
\* steady-state delay (the post-error delay on top of it) when it ended in
\* error.
C32_PacingBetweenItems ==
    (retried.kind = "item" /\ retried.pc = "attempt" /\ retried.failed = 0) =>
        /\ retried.prev = "success" => retried.paced = PAGE_DELAY
        /\ retried.prev = "error" => retried.paced > PAGE_DELAY

\* C33: a retried operation is attempted at most 3 times, and the wait after
\* its k-th failed attempt, k = 1, 2, is 2 s times 2^(k-1): 2 s, then 4 s;
\* the third failure ends the operation with no further wait.
C33_ThreeAttemptsDoublingWait ==
    retried.kind # "none" =>
        /\ retried.failed <= 3
        /\ retried.pc = "attempt" => retried.failed < 3
        /\ Len(retried.waits) <= 2
        /\ \A k \in 1..Len(retried.waits) : retried.waits[k] = 2000 * 2^(k - 1)
        /\ (retried.pc = "attempt" /\ retried.kind = "item") => Len(retried.waits) = retried.failed
        /\ retried.pc \in {"returned", "raised"} =>
               Len(retried.waits) = IF retried.failed = 3 THEN 2 ELSE retried.failed

\* a page fetch that failed three times and raised, after waits of 2 s and 4 s
C33_Witness ==
    /\ retried.kind = "player" /\ retried.pc = "raised"
    /\ retried.failed = 3
    /\ retried.waits = << 2000, 4000 >>

\* every row the page of work item gives is in the store as the page gave it
Committed(item) ==
    \A t \in 1..PageRows :
        ParsedRankings(item, PageRows)[t] \in BagToSet(store)

\* C34: whenever last_success names a work item, in the statistics of a
\* crawl or in the record of the run, the batch of that work item has been
\* committed: no attempt whose navigation, parse or save failed advances it.
C34_CheckpointAfterCommit ==
    /\ \A j \in Jobs : crawl[j].last_success # None => Committed(crawl[j].last_success)
    /\ cur.last_success # None => Committed(cur.last_success)

\* the batch of (0,1) is committed and named by last_success; the save of
\* the next work item has failed once and last_success has not moved
C34_Witness ==
    /\ crawl[1].cpc = "attempt"
    /\ crawl[1].idx = 2
    /\ crawl[1].retries = 1
    /\ crawl[1].last_success = << 0, 1 >>
    /\ Committed(<< 0, 1 >>)
    /\ ~Committed(Space(1)[2])

\* a tournament job is between the first and the last write of tournament i
MidTournament(i) ==
    \E j \in Jobs : trun[j].tpc \in {"inscriptions", "results"} /\ trun[j].i = i

\* C35: the records of one tournament are persisted all-or-nothing: once the
\* pass over a tournament has ended, by its last write or by a fetch or a
\* store call that failed, the store shows its series, its inscriptions and
\* its results, or none of them.
C35_TournamentAllOrNothing ==
    \A i \in Tournaments :
        ~MidTournament(i) =>
            /\ BagIn(SeriesOf(i)[1], tstore) <=> BagIn(InscriptionsOf(i)[1], tstore)
            /\ BagIn(SeriesOf(i)[1], tstore) <=> BagIn(ResultsOf(i)[1], tstore)

\* C36: when the application starts again, every task the previous process
\* left 'running' becomes 'cancelled' with a finish time and the other tasks
\* stay as they are, so no running task is left to refuse a start.
C36_RestartCancelsRunning ==
    [][ ((\A t \in Jobs : run'[t] = NoRun) /\ (\E t \in Jobs : run[t] # NoRun)) =>
            /\ tasks' = CancelRunningTasks(tasks)
            /\ GetCurrentScrapeTask(tasks') = 0 ]_vars

\* C37: in the player loop of a club a cancellation is noticed after at most
\* 10 further player fetches, whether they succeed or fail: the loop never
\* starts an 11th fetch after the cancel was accepted.
C37_CancelSeenWithinTen ==
    ploop.since <= 10

\* the messages job j has logged, in order
OwnMessages(j) == [n \in 1..keyed.jobs[j].logged |-> << j, n >>]

\* C38: distinct jobs of a family have distinct task ids, and the buffer of a
\* job holds that job's messages only, none lost to another job's reset.
C38_BufferPerJob ==
    /\ \A i, j \in 1..Len(keyed.jobs) :
          i # j => keyed.jobs[i].task_id # keyed.jobs[j].task_id
    /\ \A j \in 1..Len(keyed.jobs) :
          keyed.jobs[j].pc # "created" =>
              keyed.logs[keyed.jobs[j].task_id] =
                  LastOf(OwnMessages(j), LogCap["ranking"])

\* job j was asked to resume from a coordinate its space does not hold
OutsideSpace(j) ==
    /\ args[j].resume_from # None
    /\ \A k \in 1..Len(Space(j)) : Space(j)[k] # args[j].resume_from

\* C39: a ranking run asked to resume from a coordinate that is not in its
\* space skips every work item: once the loop is set up it never attempts an
\* item and never raises, no step changes the store, its counts stay at zero
\* records, zero errors and no last_success, and the driver records success
\* with these values.
C39_ResumeOutsideSkipsAll ==
    [][ \A j \in Jobs :
          /\ (OutsideSpace(j) /\ crawl[j].cpc = "check") =>
                /\ crawl'[j].cpc \in {"check", "returned"}
                /\ crawl'[j].total_rankings = 0
                /\ crawl'[j].errors = << >>
                /\ crawl'[j].last_success = None
                /\ store' = store
          /\ (OutsideSpace(j) /\ crawl[j].cpc = "returned" /\ pc'[j] = "done") =>
                /\ cur'.status = "success"
                /\ cur'.total_rankings = 0
                /\ cur'.errors_count = 0
                /\ cur'.last_success = None
                /\ store' = store ]_vars

\* a job resuming from division 0 under the filter divisions=1 has walked
\* past both items of its space without a cancellation and returned
C39_Witness ==
    \E j \in Jobs :
        /\ args[j].division_indices = {1}
        /\ args[j].weeks = TwoWeeks
        /\ args[j].resume_from = << 0, 1 >>
        /\ OutsideSpace(j)
        /\ crawl[j].cpc = "returned"
        /\ crawl[j].idx = Len(Space(j)) + 1
        /\ cur.status = "running"

=============================================================================
